---- MODULE Spec2Model ----
(***************************************************************************)
(* A model of the alz-mri-modal service: the stage classifier, the         *)
(* statistics parser, the narrative generator with its local fallback, and *)
(* the upload and analysis request paths (src/app/fastsurfer.py,           *)
(* src/app/main.py, src/app/utils.py).                                     *)
(*                                                                         *)
(* Number encodings.  Python floats are modelled by scaled integers:       *)
(*   cdr   is carried in quarters      (cdr = 0.5  is 2, cdr = 3 is 12);   *)
(*   adas  is carried in halves        (adas = 35  is 70, 85 is 170);      *)
(*   volumes and thicknesses are carried in millionths (1e-6 is 1);        *)
(*   rounded ratios (round(x, 2)) are carried in hundredths.               *)
(***************************************************************************)
EXTENDS Integers, Sequences, FiniteSets, TLC

VARIABLES
    mmse, cdr, adas,      \* the three cognitive scores of the request at hand
    stage,                \* outcome of the last predict_stage call
    aseg, lhStats, rhStats,   \* the subject's statistics files under /output/<id>/stats
    origAseg,             \* the region-volume file as the segmentation tool wrote it
    lastEdit,             \* the last edit made to the region-volume file
    biomarkers,           \* outcome of the last parse_stats call
    baseline,             \* outcome of parse_stats on the file as first written
    filename,             \* the uploaded file's name, as its dot-separated pieces
    upc,                  \* where the upload request stands
    dataWritten,          \* whether the payload was written under /data
    compressed,           \* how run_fastsurfer produced the .nii.gz input
    dockerRuns,           \* how often the segmentation tool was started
    uploadResp,           \* the answer of /api/upload
    rpc,                  \* where the analysis request stands
    image,                \* whether the segmentation preview image exists
    remote,               \* what the chat-completion request of this analysis meets
    content,              \* the text the service answers with when it answers
    llmRequests,          \* chat-completion requests issued
    pdfBuilt,             \* calls of create_pdf
    summary,              \* outcome of generate_summary
    steps,                \* the steps of generate_report entered so far, in order
    response              \* the answer of /api/analyze

stageVars == <<mmse, cdr, adas, stage>>
statsVars == <<aseg, lhStats, rhStats, origAseg, lastEdit, biomarkers, baseline>>
uploadVars == <<filename, upc, dataWritten, compressed, dockerRuns, uploadResp>>
reportVars ==
    <<rpc, image, remote, content, llmRequests, pdfBuilt, summary, steps, response>>
vars == <<stageVars, statsVars, uploadVars, reportVars>>

(***************************************************************************)
(* Bounds of the model.                                                    *)
(***************************************************************************)
\* how far outside the valid ranges the probed scores reach
Margin == 1
\* the most lines the three statistics files hold together
MaxLines == 2
\* the most pieces an uploaded file's name has
MaxNameParts == 3

(***************************************************************************)
(* predict_stage (fastsurfer.py 110-125)                                   *)
(***************************************************************************)
MmseMax == 30
CdrMax == 3
AdasMax == 85
MmseAlz == 21
MmseMci == 26
AdasAlz == 35

LabelAlz == "Alzheimer's"
LabelMci == "MCI (Mild Cognitive Impairment)"
LabelNormal == "Normal Cognition"
LabelUncertain == "Uncertain - Requires further evaluation"
Labels == {LabelAlz, LabelMci, LabelNormal, LabelUncertain}

\* as ScoresInRange, the ADAS-Cog check left out
ScoresInRange_NoAdasCheck(m, c, a) ==
    /\ 0 <= m /\ m <= MmseMax
    /\ 0 <= c /\ c <= 4 * CdrMax

\* the three range checks, each raising ValueError
ScoresInRange(m, c, a) ==
    /\ 0 <= m /\ m <= MmseMax
    /\ 0 <= c /\ c <= 4 * CdrMax
    /\ 0 <= a /\ a <= 2 * AdasMax

\* as StageRule, the MCI band of MMSE closed at 26 instead of open
StageRule_MciOffByOne(m, c, a) ==
    IF c >= 4 \/ m < MmseAlz \/ a > 2 * AdasAlz THEN LabelAlz
    ELSE IF (2 <= c /\ c < 4) \/ (MmseAlz <= m /\ m <= MmseMci) THEN LabelMci
    ELSE IF c = 0 /\ m >= MmseMci THEN LabelNormal
    ELSE LabelUncertain

\* as StageRule, ADAS-Cog not consulted
StageRule_NoAdas(m, c, a) ==
    IF c >= 4 \/ m < MmseAlz THEN LabelAlz
    ELSE IF (2 <= c /\ c < 4) \/ (MmseAlz <= m /\ m < MmseMci) THEN LabelMci
    ELSE IF c = 0 /\ m >= MmseMci THEN LabelNormal
    ELSE LabelUncertain

\* the if / elif / elif / return chain
StageRule(m, c, a) ==
    IF c >= 4 \/ m < MmseAlz \/ a > 2 * AdasAlz THEN LabelAlz
    ELSE IF (2 <= c /\ c < 4) \/ (MmseAlz <= m /\ m < MmseMci) THEN LabelMci
    ELSE IF c = 0 /\ m >= MmseMci THEN LabelNormal
    ELSE LabelUncertain

Raised(e) == [err |-> e, label |-> ""]
Returned(l) == [err |-> "none", label |-> l]
NotCalled == [err |-> "notcalled", label |-> ""]

predict_stage(m, c, a) ==
    IF ScoresInRange(m, c, a) THEN Returned(StageRule(m, c, a))
    ELSE Raised("ValueError")

(***************************************************************************)
(* Statistics files.  A file is a text of lines; of a line the parser      *)
(* reads only whether it starts with "#", how many whitespace-separated    *)
(* fields it has, and fields 3 (volume), 4 (region name) and 5 (thickness),*)
(* counted from 0.  A field is either a text float() accepts, carried as   *)
(* its value in millionths, or a text float() rejects.  Files are texts    *)
(* that decode as UTF-8.                                                   *)
(***************************************************************************)
Num(v) == [num |-> TRUE, v |-> v]
NotNum == [num |-> FALSE, v |-> 0]

LeftHippocampus == "Left-Hippocampus"
RightHippocampus == "Right-Hippocampus"
LeftLateralVentricle == "Left-Lateral-Ventricle"
RightLateralVentricle == "Right-Lateral-Ventricle"
BrainStem == "Brain-Stem"
RegionNames ==
    {LeftHippocampus, RightHippocampus, LeftLateralVentricle,
     RightLateralVentricle, BrainStem}

\* volumes in millionths: -3.0, -0.000001 and 2.0 mm^3
Volumes == {0 - 3000000, 0 - 1, 2000000}
\* thicknesses in millionths: 2.5 and 2.004999 mm
Thicknesses == {2500000, 2004999}

Line(h, n, f3, f4, f5) == [hash |-> h, nf |-> n, f3 |-> f3, f4 |-> f4, f5 |-> f5]

BlankLine == Line(FALSE, 0, NotNum, "", NotNum)
\* "# ColHeaders Index SegId NVoxels Volume_mm3 StructName ..."
HeaderLine == Line(TRUE, 6, NotNum, "Volume_mm3", NotNum)
\* a commented-out data row: "#1 17 3500 2.0 Left-Hippocampus"
CommentedRow == Line(TRUE, 5, Num(2000000), LeftHippocampus, NotNum)
IgnoredLines == {BlankLine, HeaderLine, CommentedRow}

AsegShortLine == Line(FALSE, 4, Num(2000000), "", NotNum)
AsegBadLines == {Line(FALSE, 5, NotNum, n, NotNum) : n \in {LeftHippocampus}}
AsegDataLines == {Line(FALSE, 5, Num(v), n, NotNum) : v \in Volumes, n \in RegionNames}
AsegLines == IgnoredLines \cup {AsegShortLine} \cup AsegBadLines \cup AsegDataLines

AparcShortLine == Line(FALSE, 5, NotNum, "bankssts", NotNum)
AparcBadLine == Line(FALSE, 6, NotNum, "bankssts", NotNum)
AparcDataLines == {Line(FALSE, 6, NotNum, "bankssts", Num(t)) : t \in Thicknesses}
AparcLines == {HeaderLine, AparcShortLine, AparcBadLine} \cup AparcDataLines

AbsentFile == [exists |-> FALSE, lines |-> <<>>]
File(ls) == [exists |-> TRUE, lines |-> ls]

\* the files of n lines drawn from S; an absent file reads as no lines
FilesOfLen(S, n) ==
    {File(ls) : ls \in [1..n -> S]} \cup (IF n = 0 THEN {AbsentFile} ELSE {})

(***************************************************************************)
(* parse_stats (fastsurfer.py 51-104) and safe_divide (106-108)            *)
(***************************************************************************)
\* as Skipped, comment lines not recognised
Skipped_BlankOnly(l) == l.nf = 0

\* line.startswith("#") or not line.strip()
Skipped(l) == l.hash \/ l.nf = 0

\* len(parts) >= 5 and float(parts[3]) succeeds: metrics[parts[4]] is assigned
AsegRecorded(l) == ~Skipped(l) /\ l.nf >= 5 /\ l.f3.num

\* len(parts) >= 6 and float(parts[5]) succeeds: the value is appended
AparcRecorded(l) == ~Skipped(l) /\ l.nf >= 6 /\ l.f5.num

NoMetrics == [n \in RegionNames |-> <<>>]

\* the metrics dictionary after the loop over the lines, in file order
RECURSIVE AsegMetrics(_, _)
AsegMetrics(ls, m) ==
    IF ls = <<>> THEN m
    ELSE LET l == Head(ls) IN
         AsegMetrics(Tail(ls),
                     IF AsegRecorded(l) THEN [m EXCEPT ![l.f4] = <<l.f3.v>>] ELSE m)

\* the values one hemisphere file appends to the thickness list, in file order
RECURSIVE AparcValues(_)
AparcValues(ls) ==
    IF ls = <<>> THEN <<>>
    ELSE LET l == Head(ls) IN
         (IF AparcRecorded(l) THEN <<l.f5.v>> ELSE <<>>) \o AparcValues(Tail(ls))

\* metrics.get(name, 0)
MetricsGet(m, n) == IF m[n] = <<>> THEN 0 ELSE m[n][1]

Abs(x) == IF x < 0 THEN 0 - x ELSE x
Max(x, y) == IF x >= y THEN x ELSE y

RECURSIVE SumSeq(_)
SumSeq(s) == IF s = <<>> THEN 0 ELSE Head(s) + SumSeq(Tail(s))

\* the integer nearest to p / q (q # 0), a tie going to the even one: round()
RoundDiv(p, q) ==
    LET pp == IF q < 0 THEN 0 - p ELSE p
        qq == Abs(q)
        fl == pp \div qq
        r  == pp % qq
    IN  IF 2 * r < qq THEN fl
        ELSE IF 2 * r > qq THEN fl + 1
        ELSE IF fl % 2 = 0 THEN fl ELSE fl + 1

\* round(numerator / (denominator + 1e-6), 2) if denominator != 0 else 0.0,
\* in hundredths; the division raises when denominator + 1e-6 is 0.0
safe_divide(numerator, denominator) ==
    IF denominator # 0
    THEN IF denominator + 1 = 0
         THEN [err |-> "ZeroDivisionError", v |-> 0]
         ELSE [err |-> "none", v |-> RoundDiv(100 * numerator, denominator + 1)]
    ELSE [err |-> "none", v |-> 0]

\* round(sum(thickness)/len(thickness), 2) if thickness else None, in hundredths;
\* None is the empty sequence
AverageThickness(thickness) ==
    IF thickness # <<>>
    THEN <<RoundDiv(SumSeq(thickness), Len(thickness) * 10000)>>
    ELSE <<>>

NotParsed ==
    [err |-> "notcalled", lh |-> 0, rh |-> 0, asym |-> 0, evans |-> 0, thick |-> <<>>]
ParseRaised(e) ==
    [err |-> e, lh |-> 0, rh |-> 0, asym |-> 0, evans |-> 0, thick |-> <<>>]

parse_stats(asegFile, lhFile, rhFile) ==
    LET metrics == IF asegFile.exists THEN AsegMetrics(asegFile.lines, NoMetrics)
                   ELSE NoMetrics
        thickness == (IF lhFile.exists THEN AparcValues(lhFile.lines) ELSE <<>>)
                     \o (IF rhFile.exists THEN AparcValues(rhFile.lines) ELSE <<>>)
        lh_vol == MetricsGet(metrics, LeftHippocampus)
        rh_vol == MetricsGet(metrics, RightHippocampus)
        lv_vol == MetricsGet(metrics, LeftLateralVentricle)
        rv_vol == MetricsGet(metrics, RightLateralVentricle)
        asym == safe_divide(Abs(lh_vol - rh_vol), Max(lh_vol, rh_vol))
        evans == safe_divide(lv_vol + rv_vol, lh_vol + rh_vol)
    IN  IF asym.err # "none" THEN ParseRaised(asym.err)
        ELSE IF evans.err # "none" THEN ParseRaised(evans.err)
        ELSE [err |-> "none", lh |-> lh_vol, rh |-> rh_vol, asym |-> asym.v,
              evans |-> evans.v, thick |-> AverageThickness(thickness)]

(***************************************************************************)
(* generate_summary and generate_fallback_summary (fastsurfer.py 160-219)  *)
(* A narrative text is carried as a record: the service's answer by its    *)
(* content, the local report by the values its template embeds.            *)
(***************************************************************************)
NoSummary == [err |-> "notcalled", local |-> FALSE, content |-> "", stage |-> "",
              lh |-> 0, rh |-> 0, ventricles |-> ""]
SummaryRaised(e) == [err |-> e, local |-> FALSE, content |-> "", stage |-> "",
                     lh |-> 0, rh |-> 0, ventricles |-> ""]
\* response.choices[0].message.content
ServiceText(c) == [err |-> "none", local |-> FALSE, content |-> c, stage |-> "",
                   lh |-> 0, rh |-> 0, ventricles |-> ""]

\* the f-string of the local report: "Cognitive Stage: {stage}", the two volumes
\* to one decimal (carried in tenths), and 'Abnormal' if Evans Index > 0.3
generate_fallback_summary(b, m, c, a) ==
    LET st == predict_stage(m, c, a) IN
    IF st.err # "none" THEN SummaryRaised(st.err)
    ELSE [err |-> "none", local |-> TRUE, content |-> "Clinical Report (Local Analysis)",
          stage |-> st.label,
          lh |-> RoundDiv(b.lh, 100000), rh |-> RoundDiv(b.rh, 100000),
          ventricles |-> IF b.evans > 30 THEN "Abnormal" ELSE "Normal"]

\* the failures the except clause names
CaughtFailures == {"APIConnectionError", "RateLimitError"}
\* what client.chat.completions.create can meet
RemoteOutcomes == {"ok"} \cup CaughtFailures \cup {"APIStatusError"}

\* as generate_summary, the except clause naming APIConnectionError alone
generate_summary_ConnectionOnly(b, m, c, a, outcome, text) ==
    IF outcome = "ok" THEN ServiceText(text)
    ELSE IF outcome = "APIConnectionError" THEN generate_fallback_summary(b, m, c, a)
    ELSE SummaryRaised(outcome)

generate_summary(b, m, c, a, outcome, text) ==
    IF outcome = "ok" THEN ServiceText(text)
    ELSE IF outcome \in CaughtFailures THEN generate_fallback_summary(b, m, c, a)
    ELSE SummaryRaised(outcome)

(***************************************************************************)
(* The upload path: upload_mri (main.py 80-96), process_mri (main.py       *)
(* 36-47), run_fastsurfer (fastsurfer.py 10-49).  A file name is the       *)
(* sequence of its pieces, a stem or a dotted suffix.                      *)
(***************************************************************************)
NoResponse == [status |-> "none", message |-> "", items |-> {}]
ErrorResponse(e) == [status |-> "error", message |-> e, items |-> {}]

NameParts == {"scan", ".nii", ".gz", ".txt"}
Filenames == UNION {[1..k -> NameParts] : k \in 1..MaxNameParts}

\* re.match(r'^.*\.nii(\.gz)?$', filename) (utils.py 5-7)
validate_nifti_filename(f) ==
    /\ Len(f) >= 1
    /\ \/ f[Len(f)] = ".nii"
       \/ Len(f) >= 2 /\ f[Len(f)] = ".gz" /\ f[Len(f) - 1] = ".nii"

\* nifti_path.endswith(".gz")
EndsWithGz(f) == Len(f) >= 1 /\ f[Len(f)] = ".gz"

(***************************************************************************)
(* The analysis path: analyze_results (main.py 98-120) around              *)
(* generate_report (main.py 53-76).                                        *)
(***************************************************************************)
\* whether the name `summary` read at main.py 75 is bound in generate_report:
\* the function assigns no such local and main.py defines no such global
SummaryNameBound == FALSE

ReportItems == {"biomarkers", "stage", "summary", "segmentation", "pdf_report"}

\* the statistics files an analysis may find
ReportAsegFiles ==
    {AbsentFile,
     File(<<HeaderLine,
            Line(FALSE, 5, Num(2000000), LeftHippocampus, NotNum),
            Line(FALSE, 5, Num(1000000), RightHippocampus, NotNum),
            Line(FALSE, 5, Num(1000000), LeftLateralVentricle, NotNum)>>),
     File(<<Line(FALSE, 5, Num(0 - 1), LeftHippocampus, NotNum)>>)}
ReportAparcFiles ==
    {AbsentFile, File(<<Line(FALSE, 6, NotNum, "bankssts", Num(2500000))>>)}

ReportMmse == {20, 30, 31}
ReportCdr == {0, 1, 2}
ReportAdas == {0, 80, 172}
ServiceTexts == {"Key Findings ...", "Confidence Level: High - Alzheimer's"}

(***************************************************************************)
(* No request at hand: the values of the variables a path does not use.    *)
(***************************************************************************)
StatsIdle ==
    /\ aseg = AbsentFile /\ lhStats = AbsentFile /\ rhStats = AbsentFile
    /\ origAseg = AbsentFile /\ lastEdit = "none"
    /\ biomarkers = NotParsed /\ baseline = NotParsed

UploadIdle ==
    /\ filename = <<>> /\ upc = "idle" /\ dataWritten = FALSE
    /\ compressed = "none" /\ dockerRuns = 0 /\ uploadResp = NoResponse

ReportIdle ==
    /\ rpc = "idle" /\ image = FALSE /\ remote = "ok" /\ content = ""
    /\ llmRequests = 0 /\ pdfBuilt = 0 /\ summary = NoSummary
    /\ steps = <<>> /\ response = NoResponse

(***************************************************************************)
(* The classifier applied to probed scores.                                *)
(***************************************************************************)
MmseInputs == (0 - Margin)..(MmseMax + Margin)
CdrInputs == (0 - 4 * Margin)..(4 * CdrMax + 4 * Margin)
AdasInputs == (0 - 2 * Margin)..(2 * AdasMax + 2 * Margin)

StageInit ==
    /\ StatsIdle /\ UploadIdle /\ ReportIdle
    /\ mmse \in MmseInputs
    /\ cdr \in CdrInputs
    /\ adas \in AdasInputs
    /\ stage = NotCalled

Classify ==
    /\ stage = NotCalled
    /\ stage' = predict_stage(mmse, cdr, adas)
    /\ UNCHANGED <<mmse, cdr, adas>>
    /\ UNCHANGED <<statsVars, uploadVars, reportVars>>

StageNext == Classify

SpecStage == StageInit /\ [][StageNext]_vars
(***************************************************************************)
(* The statistics files of one subject, parsed, edited and parsed again.   *)
(***************************************************************************)
FileLen(f) == Len(f.lines)

StatsInit ==
    /\ \E na \in 0..MaxLines :
       \E nl \in 0..(MaxLines - na) :
       \E nr \in 0..(MaxLines - na - nl) :
          /\ aseg \in FilesOfLen(AsegLines, na)
          /\ lhStats \in FilesOfLen(AparcLines, nl)
          /\ rhStats \in FilesOfLen(AparcLines, nr)
    /\ origAseg = aseg
    /\ lastEdit = "none"
    /\ biomarkers = NotParsed
    /\ baseline = NotParsed
    /\ mmse = 0 /\ cdr = 0 /\ adas = 0 /\ stage = NotCalled
    /\ UploadIdle /\ ReportIdle

\* parse_stats(subject_id)
ParseStats ==
    /\ biomarkers = NotParsed
    /\ biomarkers' = parse_stats(aseg, lhStats, rhStats)
    /\ baseline' = IF lastEdit = "none" THEN biomarkers' ELSE baseline
    /\ UNCHANGED <<aseg, lhStats, rhStats, origAseg, lastEdit>>
    /\ UNCHANGED <<stageVars, uploadVars, reportVars>>

Swap(s, i, j) == [s EXCEPT ![i] = s[j], ![j] = s[i]]
InsertAt(s, i, l) == SubSeq(s, 1, i - 1) \o <<l>> \o SubSeq(s, i, Len(s))
RemoveAt(s, i) == SubSeq(s, 1, i - 1) \o SubSeq(s, i + 1, Len(s))

Edited(how, ls) ==
    /\ baseline # NotParsed
    /\ aseg' = File(ls)
    /\ lastEdit' = how
    /\ biomarkers' = NotParsed
    /\ UNCHANGED <<lhStats, rhStats, origAseg, baseline>>
    /\ UNCHANGED <<stageVars, uploadVars, reportVars>>

\* two data lines of the region-volume file change places
PermuteDataLines ==
    \E i, j \in 1..FileLen(aseg) :
        /\ aseg.exists /\ i < j
        /\ ~Skipped(aseg.lines[i]) /\ ~Skipped(aseg.lines[j])
        /\ aseg.lines[i] # aseg.lines[j]
        /\ Edited("permute", Swap(aseg.lines, i, j))

\* a comment line or a blank line is put somewhere into the region-volume file
InsertIgnoredLine ==
    \E i \in 1..(FileLen(aseg) + 1), l \in IgnoredLines :
        /\ aseg.exists
        /\ FileLen(aseg) + FileLen(lhStats) + FileLen(rhStats) < MaxLines
        /\ Edited("insert", InsertAt(aseg.lines, i, l))

\* a comment line or a blank line is taken out of the region-volume file
RemoveIgnoredLine ==
    \E i \in 1..FileLen(aseg) :
        /\ aseg.exists
        /\ Skipped(aseg.lines[i])
        /\ Edited("remove", RemoveAt(aseg.lines, i))

StatsNext ==
    \/ ParseStats
    \/ PermuteDataLines
    \/ InsertIgnoredLine
    \/ RemoveIgnoredLine

SpecStats == StatsInit /\ [][StatsNext]_vars

(***************************************************************************)
(* The upload request, step by step.                                       *)
(***************************************************************************)
UploadInit ==
    /\ filename \in Filenames
    /\ upc = "upload_mri"
    /\ dataWritten = FALSE
    /\ compressed = "none"
    /\ dockerRuns = 0
    /\ uploadResp = NoResponse
    /\ mmse = 0 /\ cdr = 0 /\ adas = 0 /\ stage = NotCalled
    /\ StatsIdle /\ ReportIdle

UploadStep == UNCHANGED <<filename, stageVars, statsVars, reportVars>>

\* upload_mri hands the payload and the name to process_mri, which writes
\* /data/<filename>; a failing write is answered with an error
ProcessMriSave ==
    /\ upc = "upload_mri"
    /\ \E wrote \in BOOLEAN :
        IF wrote
        THEN /\ dataWritten' = TRUE
             /\ upc' = "run_fastsurfer"
             /\ UNCHANGED uploadResp
        ELSE /\ uploadResp' = ErrorResponse("OSError")
             /\ upc' = "done"
             /\ UNCHANGED dataWritten
    /\ UNCHANGED <<compressed, dockerRuns>>
    /\ UploadStep

\* run_fastsurfer gzips the file, or copies it when its name ends in .gz
RunFastsurferCompress ==
    /\ upc = "run_fastsurfer"
    /\ compressed' = IF ~EndsWithGz(filename) THEN "gzip" ELSE "copy"
    /\ upc' = "docker"
    /\ UNCHANGED <<dataWritten, dockerRuns, uploadResp>>
    /\ UploadStep

\* subprocess.run(command, check=True): the tool runs and exits with success, or
\* with a failure status that is re-raised as RuntimeError
RunFastsurferDocker ==
    /\ upc = "docker"
    /\ dockerRuns' = dockerRuns + 1
    /\ \E exited \in {"ok", "CalledProcessError"} :
        uploadResp' = IF exited = "ok"
                      THEN [status |-> "success", message |-> "MRI processing started",
                            items |-> {"subject_id"}]
                      ELSE ErrorResponse("RuntimeError")
    /\ upc' = "done"
    /\ UNCHANGED <<dataWritten, compressed>>
    /\ UploadStep

UploadNext ==
    \/ ProcessMriSave
    \/ RunFastsurferCompress
    \/ RunFastsurferDocker

SpecUpload == UploadInit /\ [][UploadNext]_vars

(***************************************************************************)
(* The analysis request, step by step.                                     *)
(***************************************************************************)
ReportInit ==
    /\ mmse \in ReportMmse /\ cdr \in ReportCdr /\ adas \in ReportAdas
    /\ stage = NotCalled
    /\ aseg \in ReportAsegFiles
    /\ lhStats \in ReportAparcFiles
    /\ rhStats = AbsentFile
    /\ origAseg = aseg /\ lastEdit = "none"
    /\ biomarkers = NotParsed /\ baseline = NotParsed
    /\ image \in BOOLEAN
    /\ remote \in RemoteOutcomes
    /\ content \in ServiceTexts
    /\ rpc = "parse_stats"
    /\ llmRequests = 0 /\ pdfBuilt = 0
    /\ summary = NoSummary
    /\ steps = <<>>
    /\ response = NoResponse
    /\ UploadIdle

ReportStep(name) ==
    /\ steps' = Append(steps, name)
    /\ UNCHANGED <<mmse, cdr, adas, aseg, lhStats, rhStats, origAseg, lastEdit,
                   baseline, image, remote, content>>
    /\ UNCHANGED uploadVars

\* except Exception as e: return {"status": "error", "message": str(e)}
Fails(e) ==
    /\ response' = ErrorResponse(e)
    /\ rpc' = "done"

\* biomarkers = parse_stats(subject_id)
ReportParseStats ==
    /\ rpc = "parse_stats"
    /\ biomarkers' = parse_stats(aseg, lhStats, rhStats)
    /\ IF biomarkers'.err # "none" THEN Fails(biomarkers'.err)
       ELSE rpc' = "read_image" /\ UNCHANGED response
    /\ UNCHANGED <<stage, summary, llmRequests, pdfBuilt>>
    /\ ReportStep("parse_stats")

\* with open(seg_path, "rb") as f: seg_base64 = ...
ReportReadImage ==
    /\ rpc = "read_image"
    /\ IF ~image THEN Fails("FileNotFoundError")
       ELSE rpc' = "predict_stage" /\ UNCHANGED response
    /\ UNCHANGED <<stage, biomarkers, summary, llmRequests, pdfBuilt>>
    /\ ReportStep("read_image")

\* "stage": predict_stage(mmse, cdr, adas_cog)
ReportPredictStage ==
    /\ rpc = "predict_stage"
    /\ stage' = predict_stage(mmse, cdr, adas)
    /\ IF stage'.err # "none" THEN Fails(stage'.err)
       ELSE rpc' = "generate_summary" /\ UNCHANGED response
    /\ UNCHANGED <<biomarkers, summary, llmRequests, pdfBuilt>>
    /\ ReportStep("predict_stage")

\* "summary": generate_summary(biomarkers, mmse, cdr, adas_cog)
ReportGenerateSummary ==
    /\ rpc = "generate_summary"
    /\ llmRequests' = llmRequests + 1
    /\ summary' = generate_summary(biomarkers, mmse, cdr, adas, remote, content)
    /\ IF summary'.err # "none" THEN Fails(summary'.err)
       ELSE rpc' = "create_pdf" /\ UNCHANGED response
    /\ UNCHANGED <<stage, biomarkers, pdfBuilt>>
    /\ ReportStep("generate_summary")

\* "pdf_report": base64.b64encode(create_pdf(summary)).decode(), the argument
\* being evaluated before the call
ReportCreatePdf ==
    /\ rpc = "create_pdf"
    /\ IF ~SummaryNameBound
       THEN Fails("NameError") /\ UNCHANGED pdfBuilt
       ELSE /\ pdfBuilt' = pdfBuilt + 1
            /\ response' = [status |-> "success", message |-> "", items |-> ReportItems]
            /\ rpc' = "done"
    /\ UNCHANGED <<stage, biomarkers, summary, llmRequests>>
    /\ ReportStep("create_pdf")

ReportNext ==
    \/ ReportParseStats
    \/ ReportReadImage
    \/ ReportPredictStage
    \/ ReportGenerateSummary
    \/ ReportCreatePdf

SpecReport == ReportInit /\ [][ReportNext]_vars

(***************************************************************************)
(* The claims.  Scores are written in the claims' own units and scaled     *)
(* where they are compared: cdr by 4, adas by 2.                           *)
(***************************************************************************)
\* the validated domain as the claims state it
InDomain == /\ mmse \in 0..30
            /\ 0 <= cdr /\ cdr <= 4 * 3
            /\ 0 <= adas /\ adas <= 2 * 85

\* C1: on the validated domain predict_stage returns one label of the closed
\* set, the first that matches in the order Alzheimer's, MCI, Normal,
\* Uncertain; the label is a function of the three scores.
C1_StageDecision ==
    (stage # NotCalled /\ InDomain) =>
        LET alz == cdr >= 4 * 1 \/ mmse < 21 \/ adas > 2 * 35
            mci == (2 <= cdr /\ cdr < 4 * 1) \/ (21 <= mmse /\ mmse < 26)
            nrm == cdr = 0 /\ mmse >= 26
        IN  /\ stage.err = "none"
            /\ stage.label \in Labels
            /\ alz => stage.label = LabelAlz
            /\ (~alz /\ mci) => stage.label = LabelMci
            /\ (~alz /\ ~mci /\ nrm) => stage.label = LabelNormal
            /\ (~alz /\ ~mci /\ ~nrm) => stage.label = LabelUncertain

\* C1 witness: the last branch is taken, for cdr = 0.25 and mmse = 28
C1_Witness ==
    /\ mmse = 28 /\ cdr = 1 /\ adas = 2 * 10
    /\ stage = Returned(LabelUncertain)

\* C2 as stated: the four boundary cases, (30, 0, 40) being Uncertain
C2_BoundaryCases_AsStated ==
    stage # NotCalled =>
        /\ (mmse = 26 /\ cdr = 0 /\ adas = 0) => stage.label = LabelNormal
        /\ (mmse = 25 /\ cdr = 2 /\ adas = 2 * 10) => stage.label = LabelMci
        /\ (mmse = 20 /\ cdr = 0 /\ adas = 0) => stage.label = LabelAlz
        /\ (mmse = 30 /\ cdr = 0 /\ adas = 2 * 40) => stage.label = LabelUncertain

\* C2 amended: (26, 0, 0) is Normal, (25, 0.5, 10) is MCI, (20, 0, 0) is
\* Alzheimer's, and (30, 0, 40) is Alzheimer's too: adas > 35 alone selects it.
C2_BoundaryCases ==
    stage # NotCalled =>
        /\ (mmse = 26 /\ cdr = 0 /\ adas = 0) => stage.label = LabelNormal
        /\ (mmse = 25 /\ cdr = 2 /\ adas = 2 * 10) => stage.label = LabelMci
        /\ (mmse = 20 /\ cdr = 0 /\ adas = 0) => stage.label = LabelAlz
        /\ (mmse = 30 /\ cdr = 0 /\ adas = 2 * 40) => stage.label = LabelAlz

\* C2 witness: the classifier has answered for (30, 0, 40)
C2_Witness ==
    /\ mmse = 30 /\ cdr = 0 /\ adas = 2 * 40
    /\ stage = Returned(LabelAlz)

\* C3: predict_stage raises, and returns no label, exactly when a score is
\* outside its range, whatever the other two scores are.
C3_RangeValidation ==
    stage # NotCalled =>
        /\ ~InDomain => (stage.err = "ValueError" /\ stage.label \notin Labels)
        /\ InDomain => stage.err = "none"

\* C3 witness: adas = 86 is refused although mmse = 20 matches the first rule
C3_Witness ==
    /\ mmse = 20 /\ cdr = 0 /\ adas = 2 * 86
    /\ stage = Raised("ValueError")

\* C4: an analysis whose preview image exists, whose scores are in range and
\* whose language-model request succeeds is answered with success and all
\* five items.  (Stated for the requests whose statistics parse_stats reads
\* without failing, so that a violation is one of generate_report itself.)
C4_AnalysisReturnsAllItems ==
    (rpc = "done" /\ image /\ InDomain /\ remote = "ok" /\ biomarkers.err = "none") =>
        /\ response.status = "success"
        /\ response.items = ReportItems

\* C5: the payload is written and the segmentation tool is started only for
\* a file name that ends in .nii or .nii.gz.
C5_ValidatedBeforeSegmentation ==
    (dataWritten \/ compressed # "none" \/ dockerRuns > 0) =>
        validate_nifti_filename(filename)

\* C6: after a connectivity or rate-limit failure generate_summary returns
\* the local report, which carries the label predict_stage gave for the same
\* scores; after a success it returns the service's text as it came.
C6_SummaryFallback ==
    summary # NoSummary =>
        /\ remote \in {"APIConnectionError", "RateLimitError"} =>
              /\ summary.err = "none"
              /\ summary.local
              /\ stage.label \in Labels
              /\ summary.stage = stage.label
        /\ remote = "ok" =>
              /\ summary.err = "none"
              /\ ~summary.local
              /\ summary.content = content

\* C6 witness: the rate limit was met and the local report names Alzheimer's
C6_Witness ==
    /\ remote = "RateLimitError"
    /\ mmse = 30 /\ cdr = 0 /\ adas = 2 * 40
    /\ summary.err = "none" /\ summary.local /\ summary.stage = LabelAlz
    /\ llmRequests = 1

\* no region name is recorded from two data lines of the file
NameRecordedOnce(ls) ==
    \A i, j \in 1..Len(ls) :
        (i < j /\ AsegRecorded(ls[i]) /\ AsegRecorded(ls[j])) => ls[i].f4 # ls[j].f4

\* C7 as stated: parse_stats returns the same for every order of the data
\* lines and with comment and blank lines put in or taken out, repeated
\* region names included.  (Stated for the files parse_stats reads without
\* failing before and after the edit.)
C7_OrderIndependent_AsStated ==
    (biomarkers.err = "none" /\ baseline.err = "none") => biomarkers = baseline

\* C7 amended: the same, for files in which no region name is recorded from
\* more than one data line.
C7_OrderIndependent ==
    (biomarkers # NotParsed /\ baseline # NotParsed /\ NameRecordedOnce(origAseg.lines))
        => biomarkers = baseline

\* C7 witness: two recorded data lines changed places and the file was
\* parsed again
C7_Witness ==
    /\ lastEdit = "permute"
    /\ aseg # origAseg
    /\ NameRecordedOnce(origAseg.lines)
    /\ biomarkers.err = "none"
    /\ biomarkers.lh # 0 /\ biomarkers.evans # 0
    /\ biomarkers = baseline

\* C8: the two indices parse_stats returns are >= 0, and 0.0 when their
\* denominator is zero, for any numeric volumes.
C8_IndicesNonNegative ==
    biomarkers.err = "none" =>
        /\ biomarkers.asym >= 0
        /\ biomarkers.evans >= 0
        /\ Max(biomarkers.lh, biomarkers.rh) = 0 => biomarkers.asym = 0
        /\ biomarkers.lh + biomarkers.rh = 0 => biomarkers.evans = 0

\* the values the two hemisphere files hold
CollectedThickness ==
    (IF lhStats.exists THEN AparcValues(lhStats.lines) ELSE <<>>)
    \o (IF rhStats.exists THEN AparcValues(rhStats.lines) ELSE <<>>)

\* C9: parse_stats never fails; with all files absent it returns zero
\* volumes, zero indices and no thickness; thickness is null exactly when no
\* value was collected.
C9_ParseNeverFails ==
    biomarkers # NotParsed =>
        /\ biomarkers.err = "none"
        /\ (~aseg.exists /\ ~lhStats.exists /\ ~rhStats.exists) =>
              biomarkers = [err |-> "none", lh |-> 0, rh |-> 0, asym |-> 0,
                            evans |-> 0, thick |-> <<>>]
        /\ biomarkers.thick = <<>> <=> CollectedThickness = <<>>

ReportOrder ==
    <<"parse_stats", "read_image", "predict_stage", "generate_summary", "create_pdf">>

\* C10: the steps of generate_report run in the order of ReportOrder; with an
\* out-of-range score no language-model request is issued and no PDF is
\* built; at most one request is issued; and with the image missing as well,
\* the missing image is the failure reported.
C10_ReportStepOrder ==
    /\ Len(steps) <= Len(ReportOrder)
    /\ steps = SubSeq(ReportOrder, 1, Len(steps))
    /\ ~InDomain => (llmRequests = 0 /\ pdfBuilt = 0)
    /\ llmRequests <= 1
    /\ (rpc = "done" /\ ~image /\ ~InDomain) => response.message = "FileNotFoundError"
====
